---- MODULE Spec2Model ----
(***************************************************************************)
(* Model of sysinfo.py: gathering of machine identity through blocking     *)
(* shell commands, the text helpers (MacAddress, partition) and the        *)
(* construction of the QR-code window.                                     *)
(*                                                                         *)
(* Text is modelled as a sequence of atoms.  An atom is one character      *)
(* (":", "-", " ", "\n", "=" ...) or an unbreakable word that contains     *)
(* none of the characters the program searches for or splits on.           *)
(***************************************************************************)
EXTENDS Integers, Sequences, FiniteSets, TLC

VARIABLES
    \* ---- main program (main / MainWindow.__init__ / SystemInfo) ----
    platform,        \* platform.system()
    euid,            \* os.geteuid()
    sysfs,           \* names under /sys/class/net that have a device entry
    pc,              \* position of the single thread of control
    phase,           \* "call" | "wait" | "ret": progress of the blocking command at pc
    running,         \* child processes started and not yet waited for
    stdout,          \* stdout of the last command that completed
    failed,          \* some command has exited with a non-zero status
    lshw_devs,       \* the devices lshw described in its last output
    collected,       \* SystemInfo fields evaluated so far, in order
    title_vals,      \* the values of the title tuple evaluated so far
    windowTitle,     \* MainWindow.windowTitle
    ifaces,          \* the list info.interfaces returned
    idx,             \* position of the for loop over ifaces
    self_interfaces, \* MainWindow.interfaces
    image,           \* local variable image
    serial_reads,    \* values the accesses of info.serial returned, in order
    self_serial,     \* MainWindow.serial
    layout,          \* widgets of the QHBoxLayout, in order
    shown,           \* ui.show() has been called
    \* ---- MacAddress exercised on its own ----
    mac_in, mac_m, mac_d, mac_r, mac_pc,
    \* ---- partition exercised on its own ----
    part_in, part_sent, part_incl, part_out, part_pc

mainVars == <<platform, euid, sysfs, pc, phase, running, stdout, failed, lshw_devs,
              collected, title_vals, windowTitle, ifaces, idx, self_interfaces,
              image, serial_reads, self_serial, layout, shown>>
macVars == <<mac_in, mac_m, mac_d, mac_r, mac_pc>>
partVars == <<part_in, part_sent, part_incl, part_out, part_pc>>
vars == <<mainVars, macVars, partVars>>

\* ---------------------------------------------------------------- bounds
MaxLen == 4        \* longest MAC string given to MacAddress on its own
MaxSeqLen == 3     \* longest iterable given to partition on its own
MaxDevs == 2       \* most devices in one lshw / Get-NetAdapter output

\* ------------------------------------------------------------ Python values
None == <<"<None>">>

\* str(x) as used by f-strings and by qrcode's add_data
Str(x) == IF x = None THEN <<"None">> ELSE x

RECURSIVE SeqsUpTo(_, _)
SeqsUpTo(S, n) ==
    IF n = 0 THEN {<<>>}
    ELSE LET shorter == SeqsUpTo(S, n - 1)
         IN  shorter \cup {Append(s, x) : s \in {t \in shorter : Len(t) = n - 1}, x \in S}

Range(s) == {s[i] : i \in DOMAIN s}

\* ------------------------------------------------------------ str methods
\* s.replace(old, new) for a one-atom old; new is a (possibly empty) text
RECURSIVE str_replace(_, _, _)
str_replace(s, old, new) ==
    IF s = <<>> THEN <<>>
    ELSE (IF Head(s) = old THEN new ELSE <<Head(s)>>) \o str_replace(Tail(s), old, new)

\* s.split(sep): always (number of sep in s) + 1 pieces
str_split(s, sep) ==
    LET at == {i \in DOMAIN s : s[i] = sep}
        n == Cardinality(at)
        pos(k) == CHOOSE i \in at : Cardinality({j \in at : j < i}) = k - 1
    IN  [k \in 1..(n + 1) |->
            SubSeq(s, IF k = 1 THEN 1 ELSE pos(k - 1) + 1,
                      IF k = n + 1 THEN Len(s) ELSE pos(k) - 1)]

\* sep.join(parts)
RECURSIVE str_join(_, _)
str_join(sep, parts) ==
    IF parts = <<>> THEN <<>>
    ELSE IF Len(parts) = 1 THEN parts[1]
    ELSE parts[1] \o <<sep>> \o str_join(sep, Tail(parts))

Whitespace == {" ", "\t", "\n", "\r"}

\* s.strip()
RECURSIVE lstrip(_)
lstrip(s) == IF s # <<>> /\ Head(s) \in Whitespace THEN lstrip(Tail(s)) ELSE s

RECURSIVE rstrip(_)
rstrip(s) ==
    IF s # <<>> /\ s[Len(s)] \in Whitespace THEN rstrip(SubSeq(s, 1, Len(s) - 1)) ELSE s

str_strip(s) == rstrip(lstrip(s))

\* s.splitlines(): no empty last line after a final line break
str_splitlines(s) ==
    LET p == str_split(s, "\n")
    IN  IF p[Len(p)] = <<>> THEN SubSeq(p, 1, Len(p) - 1) ELSE p

\* needle in atom.lower(), for the needles the program looks for
AtomContains(atom, needle) ==
    \/ atom = needle
    \/ <<atom, needle>> \in {<<"Serial Number", "serial">>, <<"serial", "serial">>}

\* needle in line  /  needle in line.lower()
str_in(needle, line) == \E i \in DOMAIN line : AtomContains(line[i], needle)

\* ------------------------------------------------------------ MacAddress
\* a plausible slip: only the first dash is replaced
RECURSIVE replace_first(_, _, _)
replace_first(s, old, new) ==
    IF s = <<>> THEN <<>>
    ELSE IF Head(s) = old THEN new \o Tail(s)
    ELSE <<Head(s)>> \o replace_first(Tail(s), old, new)

MacAddress_first(content) == replace_first(content, "-", <<":">>)

MacAddress(content) == str_replace(content, "-", <<":">>)

with_dashes_first(self) == replace_first(self, ":", <<"-">>)

with_dashes(self) == str_replace(self, ":", <<"-">>)

\* ------------------------------------------------------------ partition
\* the for loop of partition from position i on; sentinel is the set of items
\* for which the sentinel function is truthy
RECURSIVE partition_loop(_, _, _, _, _, _)
partition_loop(iterable, sentinel, include_boundary, i, partitions, current) ==
    IF i > Len(iterable) THEN Append(partitions, current)
    ELSE LET item == iterable[i]
         IN  IF item \in sentinel
             THEN partition_loop(iterable, sentinel, include_boundary, i + 1,
                      Append(partitions,
                             IF include_boundary THEN Append(current, item) ELSE current),
                      <<>>)
             ELSE partition_loop(iterable, sentinel, include_boundary, i + 1,
                      partitions, Append(current, item))

\* a plausible slip: the last group is not appended after the loop
RECURSIVE partition_loop_nolast(_, _, _, _, _, _)
partition_loop_nolast(iterable, sentinel, include_boundary, i, partitions, current) ==
    IF i > Len(iterable) THEN partitions
    ELSE LET item == iterable[i]
         IN  IF item \in sentinel
             THEN partition_loop_nolast(iterable, sentinel, include_boundary, i + 1,
                      Append(partitions,
                             IF include_boundary THEN Append(current, item) ELSE current),
                      <<>>)
             ELSE partition_loop_nolast(iterable, sentinel, include_boundary, i + 1,
                      partitions, Append(current, item))

partition_nolast(iterable, sentinel, include_boundary) ==
    partition_loop_nolast(iterable, sentinel, include_boundary, 1, <<>>, <<>>)

partition(iterable, sentinel, include_boundary) ==
    partition_loop(iterable, sentinel, include_boundary, 1, <<>>, <<>>)


\* ------------------------------------------------------------ environment
\* What the commands print.  Every stdout is a record: kind "text" carries the
\* characters, the other kinds carry what ConvertTo-Json printed.
Text(t) == [kind |-> "text", text |-> t, items |-> <<>>]

\* PowerShell's ConvertTo-Json: nothing for no object, one JSON object for a
\* single object, a JSON array for several
ConvertTo_Json(objs) ==
    IF Len(objs) = 0 THEN [kind |-> "empty", text |-> <<>>, items |-> <<>>]
    ELSE IF Len(objs) = 1 THEN [kind |-> "object", text |-> <<>>, items |-> objs]
    ELSE [kind |-> "array", text |-> <<>>, items |-> objs]

\* the network devices lshw can describe; a field that lshw does not print is None
LshwDevices ==
    { [description |-> <<"Ethernet", " interface">>, product |-> <<"I219">>,
       logical |-> <<"eth0">>, serial |-> <<"a", ":", "b", ":", "c">>],
      [description |-> <<"Wireless", " interface">>, product |-> None,
       logical |-> <<"wlan0">>, serial |-> <<"d", ":", "e">>],
      [description |-> <<"Ethernet", " interface">>, product |-> None,
       logical |-> <<"docker0">>, serial |-> <<"f", ":", "a">>],
      [description |-> <<"Network controller">>, product |-> <<"BCM">>,
       logical |-> None, serial |-> None] }

PhysicalNames == {<<"eth0">>, <<"wlan0">>}

LshwField(key, value) ==
    IF value = None THEN <<>> ELSE <<" ", key, ":", " ">> \o value \o <<"\n">>

\* one device section of `lshw -class network`
LshwSection(d, i, n) ==
    <<" ", "*-network">> \o (IF n > 1 THEN <<":", ToString(i - 1)>> ELSE <<>>) \o <<"\n">>
    \o LshwField("description", d.description)
    \o LshwField("product", d.product)
    \o LshwField("logical name", d.logical)
    \o LshwField("serial", d.serial)
    \o LshwField("resources", <<"irq", ":", "16">>)

RECURSIVE LshwSections(_, _)
LshwSections(devs, i) ==
    IF i > Len(devs) THEN <<>>
    ELSE LshwSection(devs[i], i, Len(devs)) \o LshwSections(devs, i + 1)

LshwPreambles == {<<>>, <<"WARNING", "\n">>}

LshwOutputs ==
    { [out |-> Text(pre \o LshwSections(devs, 1)), devs |-> devs] :
        pre \in LshwPreambles, devs \in SeqsUpTo(LshwDevices, MaxDevs) }

NetAdapters ==
    { [Name |-> <<"Ethernet">>, InterfaceDescription |-> <<"Intel">>,
       MacAddress |-> <<"A", "-", "B", "-", "C">>],
      [Name |-> <<"WiFi">>, InterfaceDescription |-> <<"Realtek">>,
       MacAddress |-> <<"D", "-", "E">>] }

NetAdapterOutputs ==
    { [out |-> ConvertTo_Json(a), devs |-> <<>>] : a \in SeqsUpTo(NetAdapters, MaxDevs) }

SerialNumbers == {<<"S1">>, <<"S2">>}

DmiSystem(serial) ==
    <<"Handle", "\n", "System Information", "\n",
      "\t", "Version", ":", " ", "T480", "\n">>
    \o (IF serial = None THEN <<>>
        ELSE <<"\t", "Serial Number", ":", " ">> \o serial \o <<"\n">>)
    \o <<"\n">>

DmiSystemOutputs ==
    { [out |-> Text(DmiSystem(s)), devs |-> <<>>] : s \in SerialNumbers \cup {None} }

DmiType1(version) ==
    <<"Handle", "\n", "System Information", "\n">>
    \o (IF version = None THEN <<>>
        ELSE <<"\t", "Version", ":", " ">> \o version \o <<"\n">>)
    \o <<"\t", "Serial Number", ":", " ", "S1", "\n", "\n">>

DmiType1Outputs ==
    { [out |-> Text(DmiType1(v)), devs |-> <<>>] : v \in {None, <<>>, <<"T480">>} }

WmiSerialOutputs ==
    { [out |-> Text(s \o <<"\r", "\n">>), devs |-> <<>>] : s \in SerialNumbers }

CsModelOutputs ==
    { [out |-> ConvertTo_Json(<<[CsModel |-> v]>>), devs |-> <<>>] :
        v \in {None, <<"T480">>} }

EditionOutputs ==
    { [out |-> ConvertTo_Json(<<[Edition |-> <<"Windows 10 Pro">>]>>), devs |-> <<>>] }

OsReleaseFiles ==
    { <<"NAME", "=", "\"", "Ubuntu", "\"", "\n",
        "PRETTY_NAME", "=", "\"", "Ubuntu 20.04", "\"", "\n">>,
      <<"PRETTY_NAME", "=", "\"", "Ubuntu 20.04", "\"", "\n", "\n",
        "NAME", "=", "Ubuntu", "\n">>,
      <<"NAME", "=", "Ubuntu", "\n">> }

Processors == {None, <<"i7">>}

MemoryGB == {<<"16">>}


\* ------------------------------------------------------------ SystemInfo
\* A property evaluation either raises or returns a value.
Raised == [raised |-> TRUE, value |-> None]
Returned(result) == [raised |-> FALSE, value |-> result]

\* d.get(k) of a dict modelled as a function
dict_get(d, k) == IF k \in DOMAIN d THEN d[k] ELSE None

\* a dict comprehension, given its (key, value) pairs in order: a later pair
\* with the same key wins
line_dict(pairs) ==
    LET keys == {pairs[i][1] : i \in DOMAIN pairs}
        last(k) == CHOOSE i \in DOMAIN pairs :
                       /\ pairs[i][1] = k
                       /\ \A j \in DOMAIN pairs : pairs[j][1] = k => j <= i
    IN  [k \in keys |-> pairs[last(k)][2]]

line_key(line) == str_strip(str_split(line, ":")[1])

\* a plausible slip: only the piece after the first colon is kept
lshw_value_second(line) ==
    LET p == str_split(line, ":") IN IF Len(p) >= 2 THEN str_strip(p[2]) ELSE <<>>

\* ":".join(line.split(":")[1:]).strip()
lshw_value(line) == str_strip(str_join(":", Tail(str_split(line, ":"))))

\* SystemInfo.model
SystemInfo_model ==
    IF platform = "Windows" THEN
        IF stdout.kind = "object" THEN Returned(stdout.items[1].CsModel) ELSE Raised
    ELSE IF platform = "Linux" THEN
        LET proc == str_splitlines(stdout.text)
            groups == partition(proc,
                          {l \in Range(proc) : str_in("System Information", l)}, FALSE)
            lines == SelectSeq(groups[Len(groups)], LAMBDA l : l # <<>>)
        IN  IF \E i \in DOMAIN lines : Len(str_split(lines[i], ":")) < 2
            THEN Raised   \* IndexError
            ELSE LET d == line_dict([i \in DOMAIN lines |->
                                        <<line_key(lines[i]),
                                          str_strip(str_split(lines[i], ":")[2])>>])
                 IN  IF <<"Version">> \notin DOMAIN d THEN Raised   \* KeyError
                     ELSE IF d[<<"Version">>] # <<>> THEN Returned(d[<<"Version">>])
                     ELSE Returned(None)
    ELSE Returned(None)

\* SystemInfo.os; release is the content of /etc/os-release
SystemInfo_os(release) ==
    IF platform = "Windows" THEN
        IF stdout.kind = "object" THEN Returned(stdout.items[1].Edition) ELSE Raised
    ELSE IF platform = "Linux" THEN
        LET lines == str_splitlines(release)
        IN  IF \E i \in DOMAIN lines : Len(str_split(lines[i], "=")) < 2
            THEN Raised   \* IndexError
            ELSE LET d == line_dict([i \in DOMAIN lines |->
                                        <<str_split(lines[i], "=")[1],
                                          str_replace(str_split(lines[i], "=")[2],
                                                      "\"", <<>>)>>])
                 IN  IF <<"PRETTY_NAME">> \in DOMAIN d
                     THEN Returned(d[<<"PRETTY_NAME">>]) ELSE Raised   \* KeyError
    ELSE Returned(None)

\* SystemInfo.serial
SystemInfo_serial ==
    IF platform = "Windows" THEN Returned(str_strip(stdout.text))
    ELSE IF platform = "Linux" THEN
        LET lines == str_splitlines(stdout.text)
            hits == SelectSeq(lines, LAMBDA l : str_in("serial", l))
        IN  IF hits = <<>> THEN Raised   \* StopIteration
            ELSE LET p == str_split(hits[1], ":") IN Returned(str_strip(p[Len(p)]))
    ELSE Returned(None)

Interface(name, description, mac, logical) ==
    [name |-> name, description |-> description, mac |-> mac, logical |-> logical]

\* get_physical_interfaces()
get_physical_interfaces == sysfs

\* SystemInfo.interfaces
SystemInfo_interfaces ==
    IF platform = "Windows" THEN
        IF stdout.kind = "array" THEN
            Returned([i \in DOMAIN stdout.items |->
                Interface(stdout.items[i].Name, stdout.items[i].InterfaceDescription,
                          MacAddress(stdout.items[i].MacAddress), None)])
        ELSE Raised   \* JSONDecodeError on no output; TypeError on a single object
    ELSE IF platform = "Linux" THEN
        LET lines == str_splitlines(stdout.text)
            parts == partition(lines, {l \in Range(lines) : str_in("*-network", l)}, FALSE)
            nonempty == SelectSeq(parts, LAMBDA dev : dev # <<>>)
            devs == [i \in DOMAIN nonempty |->
                        line_dict([j \in DOMAIN nonempty[i] |->
                                      <<line_key(nonempty[i][j]),
                                        lshw_value(nonempty[i][j])>>])]
            kept == SelectSeq(devs,
                        LAMBDA iface : dict_get(iface, <<"logical name">>)
                                           \in get_physical_interfaces)
        IN  IF \E i \in DOMAIN kept :
                   \/ dict_get(kept[i], <<"description">>) = None
                   \/ dict_get(kept[i], <<"serial">>) = None
            THEN Raised   \* AttributeError: None has no replace
            ELSE Returned([i \in DOMAIN kept |->
                     Interface(dict_get(kept[i], <<"product">>),
                               str_replace(dict_get(kept[i], <<"description">>),
                                           " interface", <<>>),
                               MacAddress(dict_get(kept[i], <<"serial">>)),
                               dict_get(kept[i], <<"logical name">>))])
    ELSE Returned(<<>>)

\* ------------------------------------------------------------ widgets
\* the em dash of the captions and of the title is written " -- "
\* make_qr: the code encodes str(data)
make_qr(data) == [data |-> Str(data)]

QCaptionedImage(caption, img) == [caption |-> caption, image |-> img]

NoImage == [data |-> <<"<unset>">>]
NoWidget == [caption |-> <<"<unset>">>, image |-> NoImage]

\* a plausible slip: the suffix is appended whatever the logical name is
interface_caption_always(interface) ==
    Str(interface.name) \o <<" -- ">> \o Str(interface.description)
        \o <<" (">> \o Str(interface.logical) \o <<")">>

\* the caption built in the loop of MainWindow.__init__
interface_caption(interface) ==
    LET logical_name == IF interface.logical # None
                        THEN <<" (">> \o Str(interface.logical) \o <<")">> ELSE <<>>
    IN  Str(interface.name) \o <<" -- ">> \o Str(interface.description) \o logical_name

serial_caption(serial) == <<"Serial Number (">> \o Str(serial) \o <<")">>


\* ------------------------------------------------------------ main program
envVars == <<platform, euid, sysfs>>
cmdVars == <<running, stdout, failed, lshw_devs>>
infoVars == <<collected, title_vals>>
winVars == <<windowTitle, ifaces, idx, self_interfaces, image, serial_reads,
             self_serial, layout, shown>>

Platforms == {"Windows", "Linux", "Darwin"}
Euids == {0, 1000}
Sites == {"model", "os", "interfaces", "serial_qr", "serial_caption"}

\* whether the SystemInfo property evaluated at site runs a shell command
NeedsCommand(site) ==
    \/ site \in {"model", "interfaces", "serial_qr", "serial_caption"}
           /\ platform \in {"Windows", "Linux"}
    \/ site = "os" /\ platform = "Windows"

\* the command line given to run_powershell / run_command at site
Command(site) ==
    IF platform = "Windows"
    THEN CASE site = "model" -> "Get-ComputerInfo | Select CsModel"
           [] site = "os" -> "Get-ComputerInfo | Select $edition"
           [] site = "interfaces" -> "Get-NetAdapter -Physical"
           [] OTHER -> "Get-WMIObject"
    ELSE CASE site = "model" -> "dmidecode -t1"
           [] site = "interfaces" -> "lshw -class network"
           [] OTHER -> "dmidecode -t system"

Outputs(cmd) ==
    CASE cmd = "Get-ComputerInfo | Select CsModel" -> CsModelOutputs
      [] cmd = "Get-ComputerInfo | Select $edition" -> EditionOutputs
      [] cmd = "Get-NetAdapter -Physical" -> NetAdapterOutputs
      [] cmd = "Get-WMIObject" -> WmiSerialOutputs
      [] cmd = "dmidecode -t1" -> DmiType1Outputs
      [] cmd = "lshw -class network" -> LshwOutputs
      [] OTHER -> DmiSystemOutputs

MainInit ==
    /\ platform \in Platforms
    /\ euid \in Euids
    /\ sysfs \in (IF platform = "Linux" THEN SUBSET PhysicalNames ELSE {{}})
    /\ pc = "start"
    /\ phase = "call"
    /\ running = <<>>
    /\ stdout = Text(<<>>)
    /\ failed = FALSE
    /\ lshw_devs = <<>>
    /\ collected = <<>>
    /\ title_vals = <<>>
    /\ windowTitle = <<>>
    /\ ifaces = <<>>
    /\ idx = 1
    /\ self_interfaces = <<>>
    /\ image = NoImage
    /\ serial_reads = <<>>
    /\ self_serial = NoWidget
    /\ layout = <<>>
    /\ shown = FALSE

\* the main program is not running (used when a helper is exercised on its own)
MainOff ==
    /\ platform = "Darwin" /\ euid = 0 /\ sysfs = {}
    /\ pc = "off" /\ phase = "call" /\ running = <<>> /\ stdout = Text(<<>>)
    /\ failed = FALSE /\ lshw_devs = <<>> /\ collected = <<>> /\ title_vals = <<>>
    /\ windowTitle = <<>> /\ ifaces = <<>> /\ idx = 1 /\ self_interfaces = <<>>
    /\ image = NoImage /\ serial_reads = <<>> /\ self_serial = NoWidget
    /\ layout = <<>> /\ shown = FALSE

MacOff ==
    mac_in = <<>> /\ mac_m = <<>> /\ mac_d = <<>> /\ mac_r = <<>> /\ mac_pc = "off"

PartOff ==
    part_in = <<>> /\ part_sent = {} /\ part_incl = FALSE /\ part_out = <<>>
        /\ part_pc = "off"

\* main(): the root check, QApplication(), entry into MainWindow.__init__
main ==
    /\ pc = "start"
    /\ pc' = IF platform = "Linux" /\ euid # 0 THEN "exited" ELSE "model"
    /\ UNCHANGED <<envVars, phase, cmdVars, infoVars, winVars, macVars, partVars>>

\* subprocess.check_output, first half: the child process is started
check_output_start ==
    /\ pc \in Sites /\ NeedsCommand(pc) /\ phase = "call"
    /\ running' = Append(running, Command(pc))
    /\ phase' = "wait"
    /\ UNCHANGED <<envVars, pc, stdout, failed, lshw_devs, infoVars, winVars,
                   macVars, partVars>>

\* a plausible slip: the exit status is not checked (subprocess.run without check)
check_output_wait_unchecked ==
    /\ phase = "wait" /\ running # <<>>
    /\ \E status \in {0, 1}, o \in Outputs(running[Len(running)]) :
          /\ running' = SubSeq(running, 1, Len(running) - 1)
          /\ failed' = (failed \/ status # 0)
          /\ stdout' = o.out
          /\ lshw_devs' = IF running[Len(running)] = "lshw -class network"
                          THEN o.devs ELSE lshw_devs
          /\ phase' = "ret"
          /\ pc' = pc
    /\ UNCHANGED <<envVars, infoVars, winVars, macVars, partVars>>

\* a plausible slip: the child is not waited for (Popen and a read of its pipe)
check_output_wait_nowait ==
    /\ phase = "wait" /\ running # <<>>
    /\ \E status \in {0, 1}, o \in Outputs(running[Len(running)]) :
          /\ running' = running
          /\ IF status # 0
             THEN /\ failed' = TRUE
                  /\ pc' = "raised" /\ phase' = "call"
                  /\ UNCHANGED <<stdout, lshw_devs>>
             ELSE /\ stdout' = o.out
                  /\ lshw_devs' = IF running[Len(running)] = "lshw -class network"
                                  THEN o.devs ELSE lshw_devs
                  /\ phase' = "ret"
                  /\ UNCHANGED <<pc, failed>>
    /\ UNCHANGED <<envVars, infoVars, winVars, macVars, partVars>>

\* subprocess.check_output, second half: the child is waited for; a non-zero
\* exit status raises CalledProcessError, otherwise its stdout is returned
check_output_wait ==
    /\ phase = "wait" /\ running # <<>>
    /\ \E status \in {0, 1}, o \in Outputs(running[Len(running)]) :
          /\ running' = SubSeq(running, 1, Len(running) - 1)
          /\ IF status # 0
             THEN /\ failed' = TRUE
                  /\ pc' = "raised" /\ phase' = "call"
                  /\ UNCHANGED <<stdout, lshw_devs>>
             ELSE /\ stdout' = o.out
                  /\ lshw_devs' = IF running[Len(running)] = "lshw -class network"
                                  THEN o.devs ELSE lshw_devs
                  /\ phase' = "ret"
                  /\ UNCHANGED <<pc, failed>>
    /\ UNCHANGED <<envVars, infoVars, winVars, macVars, partVars>>

\* the property at site can be evaluated: its command, if any, has returned
Ready(site) ==
    pc = site /\ phase = (IF NeedsCommand(site) THEN "ret" ELSE "call")

\* an exception leaves MainWindow.__init__ and main
Raise == pc' = "raised" /\ phase' = "call"

\* info.model in the title tuple
title_model ==
    /\ Ready("model")
    /\ LET r == SystemInfo_model
       IN  IF r.raised THEN Raise /\ UNCHANGED infoVars
           ELSE /\ title_vals' = Append(title_vals, r.value)
                /\ collected' = Append(collected, "model")
                /\ pc' = "os" /\ phase' = "call"
    /\ UNCHANGED <<envVars, cmdVars, winVars, macVars, partVars>>

\* info.os in the title tuple
title_os ==
    /\ Ready("os")
    /\ \E release \in OsReleaseFiles :
          LET r == SystemInfo_os(release)
          IN  IF r.raised THEN Raise /\ UNCHANGED infoVars
              ELSE /\ title_vals' = Append(title_vals, r.value)
                   /\ collected' = Append(collected, "os")
                   /\ pc' = "processor" /\ phase' = "call"
    /\ UNCHANGED <<envVars, cmdVars, winVars, macVars, partVars>>

\* info.processor in the title tuple: get_cpu_info().get("brand_raw")
title_processor ==
    /\ pc = "processor"
    /\ \E brand \in Processors :
          /\ title_vals' = Append(title_vals, brand)
          /\ collected' = Append(collected, "processor")
    /\ pc' = "memory"
    /\ UNCHANGED <<envVars, phase, cmdVars, winVars, macVars, partVars>>

\* info.memory, the filter of the title strings, setWindowTitle, self.interfaces = []
title_memory ==
    /\ pc = "memory"
    /\ \E gb \in MemoryGB :
          LET all == Append(title_vals, gb \o <<" GB RAM">>)
              title_strings == SelectSeq(all, LAMBDA string : string # None)
          IN  /\ title_vals' = all
              /\ windowTitle' = str_join("   --   ", title_strings)
    /\ collected' = Append(collected, "memory")
    /\ self_interfaces' = <<>>
    /\ pc' = "interfaces"
    /\ UNCHANGED <<envVars, phase, cmdVars, ifaces, idx, image, serial_reads,
                   self_serial, layout, shown, macVars, partVars>>

\* info.interfaces at the head of the for loop
for_interfaces ==
    /\ Ready("interfaces")
    /\ LET r == SystemInfo_interfaces
       IN  IF r.raised THEN Raise /\ UNCHANGED <<collected, ifaces, idx>>
           ELSE /\ ifaces' = r.value
                /\ idx' = 1
                /\ collected' = Append(collected, "interfaces")
                /\ pc' = IF r.value = <<>> THEN "serial_qr" ELSE "loop"
                /\ phase' = "call"
    /\ UNCHANGED <<envVars, cmdVars, title_vals, windowTitle, self_interfaces, image,
                   serial_reads, self_serial, layout, shown, macVars, partVars>>

\* one turn of the for loop: make_qr, the caption, the append
loop_body ==
    /\ pc = "loop" /\ idx <= Len(ifaces)
    /\ LET interface == ifaces[idx]
           img == make_qr(interface.mac)
       IN  /\ image' = img
           /\ self_interfaces' =
                  Append(self_interfaces, QCaptionedImage(interface_caption(interface), img))
    /\ idx' = idx + 1
    /\ pc' = IF idx = Len(ifaces) THEN "serial_qr" ELSE "loop"
    /\ UNCHANGED <<envVars, phase, cmdVars, infoVars, windowTitle, ifaces, serial_reads,
                   self_serial, layout, shown, macVars, partVars>>

\* image = make_qr(info.serial)
serial_image ==
    /\ Ready("serial_qr")
    /\ LET r == SystemInfo_serial
       IN  IF r.raised THEN Raise /\ UNCHANGED <<collected, image, serial_reads>>
           ELSE /\ image' = make_qr(r.value)
                /\ serial_reads' = Append(serial_reads, r.value)
                /\ collected' = Append(collected, "serial")
                /\ pc' = "serial_caption" /\ phase' = "call"
    /\ UNCHANGED <<envVars, cmdVars, title_vals, windowTitle, ifaces, idx, self_interfaces,
                   self_serial, layout, shown, macVars, partVars>>

\* self.serial = QCaptionedImage(f"Serial Number ({info.serial})", image)
serial_widget ==
    /\ Ready("serial_caption")
    /\ LET r == SystemInfo_serial
       IN  IF r.raised THEN Raise /\ UNCHANGED <<collected, self_serial, serial_reads>>
           ELSE /\ self_serial' = QCaptionedImage(serial_caption(r.value), image)
                /\ serial_reads' = Append(serial_reads, r.value)
                /\ collected' = Append(collected, "serial")
                /\ pc' = "layout" /\ phase' = "call"
    /\ UNCHANGED <<envVars, cmdVars, title_vals, windowTitle, ifaces, idx, self_interfaces,
                   image, layout, shown, macVars, partVars>>

\* a plausible slip: the serial widget is added first
set_layout_serial_first ==
    /\ pc = "layout"
    /\ layout' = <<self_serial>> \o self_interfaces
    /\ pc' = "constructed"
    /\ UNCHANGED <<envVars, phase, cmdVars, infoVars, windowTitle, ifaces, idx,
                   self_interfaces, image, serial_reads, self_serial, shown,
                   macVars, partVars>>

\* the QHBoxLayout: every widget of self.interfaces + [self.serial] is added
set_layout ==
    /\ pc = "layout"
    /\ layout' = self_interfaces \o <<self_serial>>
    /\ pc' = "constructed"
    /\ UNCHANGED <<envVars, phase, cmdVars, infoVars, windowTitle, ifaces, idx,
                   self_interfaces, image, serial_reads, self_serial, shown,
                   macVars, partVars>>

\* ui.show()
show ==
    /\ pc = "constructed"
    /\ shown' = TRUE
    /\ pc' = "exec"
    /\ UNCHANGED <<envVars, phase, cmdVars, infoVars, windowTitle, ifaces, idx,
                   self_interfaces, image, serial_reads, self_serial, layout,
                   macVars, partVars>>

\* sys.exit(app.exec_())
app_exec ==
    /\ pc = "exec"
    /\ pc' = "exited"
    /\ UNCHANGED <<envVars, phase, cmdVars, infoVars, winVars, macVars, partVars>>

Init == MainInit /\ MacOff /\ PartOff

Next ==
    \/ main
    \/ check_output_start
    \/ check_output_wait
    \/ title_model
    \/ title_os
    \/ title_processor
    \/ title_memory
    \/ for_interfaces
    \/ loop_body
    \/ serial_image
    \/ serial_widget
    \/ set_layout
    \/ show
    \/ app_exec

Spec == Init /\ [][Next]_vars


\* ------------------------------------------------- MacAddress on its own
MacAtoms == {"a", "-", ":"}

MacInit ==
    /\ mac_in \in SeqsUpTo(MacAtoms, MaxLen)
    /\ mac_m = <<>> /\ mac_d = <<>> /\ mac_r = <<>>
    /\ mac_pc = "new"

\* m = MacAddress(s)
mac_new ==
    /\ mac_pc = "new"
    /\ mac_m' = MacAddress(mac_in)
    /\ mac_pc' = "dashes"
    /\ UNCHANGED <<mac_in, mac_d, mac_r, mainVars, partVars>>

\* d = m.with_dashes()
mac_with_dashes ==
    /\ mac_pc = "dashes"
    /\ mac_d' = with_dashes(mac_m)
    /\ mac_pc' = "again"
    /\ UNCHANGED <<mac_in, mac_m, mac_r, mainVars, partVars>>

\* r = MacAddress(d)
mac_again ==
    /\ mac_pc = "again"
    /\ mac_r' = MacAddress(mac_d)
    /\ mac_pc' = "done"
    /\ UNCHANGED <<mac_in, mac_m, mac_d, mainVars, partVars>>

MacNext == mac_new \/ mac_with_dashes \/ mac_again

InitMac == MainOff /\ MacInit /\ PartOff

SpecMac == InitMac /\ [][MacNext]_vars

\* -------------------------------------------------- partition on its own
Items == {"x", "y", "z"}

PartInit ==
    /\ part_in \in SeqsUpTo(Items, MaxSeqLen)
    /\ part_sent \in SUBSET Items
    /\ part_incl \in BOOLEAN
    /\ part_out = <<>>
    /\ part_pc = "call"

\* out = partition(iterable, sentinel, include_boundary)
partition_call ==
    /\ part_pc = "call"
    /\ part_out' = partition(part_in, part_sent, part_incl)
    /\ part_pc' = "done"
    /\ UNCHANGED <<part_in, part_sent, part_incl, mainVars, macVars>>

PartNext == partition_call

InitPartition == MainOff /\ MacOff /\ PartInit

SpecPartition == InitPartition /\ [][PartNext]_vars


\* ======================================================== properties
Count(s, a) == Cardinality({i \in DOMAIN s : s[i] = a})

RECURSIVE Flatten(_)
Flatten(groups) == IF groups = <<>> THEN <<>> ELSE Head(groups) \o Flatten(Tail(groups))

IsPrefix(s, t) == Len(s) <= Len(t) /\ SubSeq(t, 1, Len(s)) = s

EndsWith(s, t) == Len(s) >= Len(t) /\ SubSeq(s, Len(s) - Len(t) + 1, Len(s)) = t

\* MainWindow.__init__ has returned
Constructed == pc \in {"constructed", "exec"} \/ shown

\* info.interfaces has returned its list
InterfacesReturned == \E i \in DOMAIN collected : collected[i] = "interfaces"

\* C1: once MainWindow is constructed its layout holds len(interfaces) + 1
\* captioned QR widgets: the i-th encodes the MAC address of the i-th interface
\* of the list info.interfaces returned, and the last one, the only serial
\* widget, encodes the serial number info.serial returned.
C1_LayoutHoldsInterfacesThenSerial ==
    Constructed =>
        /\ Len(layout) = Len(ifaces) + 1
        /\ \A i \in DOMAIN ifaces :
              /\ layout[i].image.data = ifaces[i].mac
              /\ layout[i] = self_interfaces[i]
              /\ Head(layout[i].caption) # "Serial Number ("
        /\ Head(layout[Len(layout)].caption) = "Serial Number ("
        /\ layout[Len(layout)].image.data = Str(serial_reads[1])

C1_Witness ==
    /\ Constructed
    /\ Len(ifaces) = 2
    /\ ifaces[1].mac # ifaces[2].mac

\* C2: MacAddress(s) holds no "-", has the length of s, is s with every "-"
\* replaced by ":" and every other character kept, and normalising it again
\* changes nothing.
C2_MacAddressNormalizes ==
    mac_pc # "new" =>
        /\ Count(mac_m, "-") = 0
        /\ Len(mac_m) = Len(mac_in)
        /\ \A i \in DOMAIN mac_in :
              mac_m[i] = (IF mac_in[i] = "-" THEN ":" ELSE mac_in[i])
        /\ MacAddress(mac_m) = mac_m

C2_Witness ==
    /\ mac_pc = "done"
    /\ Count(mac_in, "-") >= 2
    /\ Count(mac_in, ":") >= 1
    /\ Count(mac_in, "a") >= 1

\* C3: for a MacAddress m, m.with_dashes() holds no ":", is m with every ":"
\* replaced by "-", and MacAddress(m.with_dashes()) is m again.
C3_WithDashesRoundTrips ==
    /\ mac_pc \in {"again", "done"} =>
          /\ Count(mac_d, ":") = 0
          /\ Len(mac_d) = Len(mac_m)
          /\ \A i \in DOMAIN mac_m :
                mac_d[i] = (IF mac_m[i] = ":" THEN "-" ELSE mac_m[i])
    /\ mac_pc = "done" => mac_r = mac_m

C3_Witness ==
    /\ mac_pc = "done"
    /\ Count(mac_m, ":") >= 2
    /\ Count(mac_m, "a") >= 1
    /\ mac_d # mac_m

\* C4: partition with include_boundary False returns (number of sentinel
\* items) + 1 groups, none of which holds a sentinel item, and the groups
\* concatenated in order are the input without its sentinel items.
C4_PartitionSplitsAndDiscards ==
    (part_pc = "done" /\ ~part_incl) =>
        /\ Len(part_out) =
               Cardinality({i \in DOMAIN part_in : part_in[i] \in part_sent}) + 1
        /\ \A g \in DOMAIN part_out : \A j \in DOMAIN part_out[g] :
               part_out[g][j] \notin part_sent
        /\ Flatten(part_out) = SelectSeq(part_in, LAMBDA item : item \notin part_sent)

C4_Witness ==
    /\ part_pc = "done" /\ ~part_incl
    /\ Len(part_out) = 3
    /\ \E g \in DOMAIN part_out : part_out[g] = <<>>
    /\ \E g \in DOMAIN part_out : part_out[g] # <<>>

\* C5: when a command exits with a non-zero status the exception leaves the
\* property, MainWindow.__init__ and main: no value of the property is kept,
\* no layout is set and the window is never shown.
C5_FailureInv ==
    failed => /\ pc = "raised"
              /\ ~shown
              /\ layout = <<>>
              /\ ~Constructed

C5_FailureStep ==
    (~failed /\ failed') =>
        /\ pc' = "raised"
        /\ UNCHANGED <<collected, title_vals, windowTitle, ifaces, self_interfaces,
                       image, serial_reads, self_serial, layout, shown>>

C5_CommandFailurePropagates == []C5_FailureInv /\ [][C5_FailureStep]_vars

C5_Witness ==
    /\ failed
    /\ pc = "raised"
    /\ InterfacesReturned
    /\ Len(serial_reads) = 1

\* C6: at most one command is in flight at any time, the fields are evaluated
\* one after the other in program order, and the window is shown only after
\* model, os, processor, memory, interfaces and serial have been collected
\* and every QR widget has been built.
FieldOrder == <<"model", "os", "processor", "memory", "interfaces", "serial", "serial">>

C6_SequentialThenShown ==
    /\ Len(running) <= 1
    /\ (running # <<>> => phase = "wait")
    /\ IsPrefix(collected, FieldOrder)
    /\ shown =>
          /\ collected = FieldOrder
          /\ running = <<>>
          /\ Len(self_interfaces) = Len(ifaces)
          /\ self_serial # NoWidget
          /\ layout = self_interfaces \o <<self_serial>>

C6_Witness ==
    /\ shown
    /\ platform = "Linux"
    /\ Len(self_interfaces) = 2

\* the devices of the lshw output whose logical name is a physical interface
PhysicalDevices == SelectSeq(lshw_devs, LAMBDA d : d.logical \in sysfs)

HasLogicalSuffix(caption) ==
    Len(caption) >= 3 /\ caption[Len(caption)] = ")" /\ caption[Len(caption) - 2] = " ("

\* C7: on Linux info.interfaces returns exactly the lshw devices whose logical
\* name is a physical interface, in lshw order, each with its logical name
\* (never None) and with the whole lshw serial value as MAC address; on
\* Windows the logical name is None; a caption ends with " (<logical>)"
\* exactly when the logical name is not None.
C7_InterfacesAndCaptions ==
    /\ (platform = "Linux" /\ InterfacesReturned) =>
          /\ Len(ifaces) = Len(PhysicalDevices)
          /\ \A i \in DOMAIN ifaces :
                /\ ifaces[i].logical = PhysicalDevices[i].logical
                /\ ifaces[i].logical # None
                /\ ifaces[i].mac = PhysicalDevices[i].serial
                /\ ifaces[i].name = PhysicalDevices[i].product
    /\ (platform = "Windows" /\ InterfacesReturned) =>
          \A i \in DOMAIN ifaces : ifaces[i].logical = None
    /\ \A i \in DOMAIN self_interfaces :
          /\ HasLogicalSuffix(self_interfaces[i].caption) <=> ifaces[i].logical # None
          /\ ifaces[i].logical # None =>
                EndsWith(self_interfaces[i].caption, <<" (">> \o ifaces[i].logical \o <<")">>)

C7_Witness ==
    /\ platform = "Linux"
    /\ Len(lshw_devs) = 2
    /\ lshw_devs[1].logical = <<"docker0">>
    /\ Len(self_interfaces) = 1
    /\ Count(ifaces[1].mac, ":") = 2
    /\ HasLogicalSuffix(self_interfaces[1].caption)

\* C8: in every constructed MainWindow the serial number in the caption of the
\* serial widget is the value its QR code encodes, whatever the serial
\* command prints at each access.
C8_CaptionMatchesQr ==
    Constructed => self_serial.caption = <<"Serial Number (">> \o self_serial.image.data \o <<")">>

====
